---- MODULE Spec2Model ----
(***************************************************************************)
(* Model of app.py: the Flask request handlers of the message board, the   *)
(* SQLite store they share (one connection per request, one writer at a    *)
(* time), the socket.io broadcast and the Luma video job the handlers poll.*)
(* Every request runs in its own slot; slots interleave statement by       *)
(* statement.                                                              *)
(***************************************************************************)
EXTENDS Integers, Sequences, FiniteSets, Bags, TLC

VARIABLES db, wdb, writer, procs, jobs, lastEvent, display, apiKeys, polls,
          channels, clock

vars ==
  <<db, wdb, writer, procs, jobs, lastEvent, display, apiKeys, polls,
    channels, clock>>

\* ---------------------------------------------------------------- bounds
\* Requests in flight at once.
MaxProcs == 2
\* Messages posted in the specifications about posting and tags.
MaxMessages == 2
\* Messages posted in the specifications about media.
MaxVideoMessages == 1
\* Comments posted.
MaxComments == 2

Procs == 1..MaxProcs

\* ------------------------------------------------------------ value sets
\* None / SQL NULL, as opposed to the empty string.
NULL == "NULL"

Users == {1, 2}
Reactions == {"up", "down"}
Handles == {"h1"}
\* The video URLs the provider hands out, and the ones clients send.
Urls == {"v1"}
ClientUrls == {"v2"}

\* Python truthiness of an optional string.
Truthy(x) == x # NULL /\ x # ""

\* ------------------------------------------------------- tag normalisation
\* Raw form text is a sequence of one-character strings.
LowerChar(c) == IF c = "A" THEN "a" ELSE IF c = "B" THEN "b" ELSE c

Lower(s) == [k \in 1..Len(s) |-> LowerChar(s[k])]

IsSpace(c) == c = " "

RECURSIVE LStrip(_)
LStrip(s) == IF s # <<>> /\ IsSpace(Head(s)) THEN LStrip(Tail(s)) ELSE s

RECURSIVE RStrip(_)
RStrip(s) ==
  IF s # <<>> /\ IsSpace(s[Len(s)]) THEN RStrip(SubSeq(s, 1, Len(s) - 1)) ELSE s

Strip(s) == RStrip(LStrip(s))

\* tag.strip().lower()
NormalizeTag(t) == Lower(Strip(t))

\* str.split(','): always at least one piece, empty pieces kept.
RECURSIVE SplitFrom(_, _, _)
SplitFrom(s, k, cur) ==
  IF k > Len(s) THEN <<cur>>
  ELSE IF s[k] = "," THEN <<cur>> \o SplitFrom(s, k + 1, <<>>)
  ELSE SplitFrom(s, k + 1, Append(cur, s[k]))

Split(s) == SplitFrom(s, 1, <<>>)

\* The tags fields the requests of the model submit.
TagForms ==
  { <<>>,
    <<"a">>,
    <<"A", ",", "b">>,
    <<"A", ",", " ", "a", " ">>,
    <<" ", "b", ",", ",">> }

\* ------------------------------------------------------------------ store
\* messages and tags are sets of rows, told apart by their id.  No statement
\* reads the rowid of message_tags or the id of reactions, so these tables are
\* bags of their remaining columns: a row stored twice counts twice.
EmptyDb ==
  [messages |-> {}, tags |-> {}, message_tags |-> EmptyBag,
   reactions |-> EmptyBag, comments |-> {}]

Max(S) == CHOOSE x \in S : \A y \in S : y <= x

\* AUTOINCREMENT rowid / implicit rowid: one past the largest in the table.
NextId(rows) == IF rows = {} THEN 1 ELSE Max({r.id : r \in rows}) + 1

\* What the connection of request p reads: its own uncommitted writes, or
\* the committed store.
View(p) == IF writer = p THEN wdb ELSE db

\* A write statement needs the database write lock.
CanWriteUnlocked(p) == TRUE

CanWrite(p) == writer = 0 \/ writer = p

\* INSERT INTO messages (...) VALUES (...) run in second ts: the timestamp
\* column takes its default, CURRENT_TIMESTAMP.
InsertMessageAt(d, ts, uid, content, image_data, video_id, video_url) ==
  [d EXCEPT !.messages = @ \cup
     {[id |-> NextId(d.messages), user_id |-> uid, content |-> content,
       image_data |-> image_data, video_id |-> video_id,
       video_url |-> video_url, timestamp |-> ts]}]

InsertMessage(d, uid, content, image_data, video_id, video_url) ==
  InsertMessageAt(d, clock, uid, content, image_data, video_id, video_url)

\* INSERT OR IGNORE INTO tags (name) VALUES (?)  -- name is UNIQUE
InsertOrIgnoreTagPlain(d, name) ==
  [d EXCEPT !.tags = @ \cup {[id |-> NextId(d.tags), name |-> name]}]

InsertOrIgnoreTag(d, name) ==
  IF \E t \in d.tags : t.name = name THEN d
  ELSE [d EXCEPT !.tags = @ \cup {[id |-> NextId(d.tags), name |-> name]}]

\* SELECT id FROM tags WHERE name = ?  ... fetchone()[0]
SelectTagId(d, name) ==
  LET ids == {t.id : t \in {x \in d.tags : x.name = name}}
  IN  CHOOSE i \in ids : \A j \in ids : i <= j

\* PRIMARY KEY (message_id, tag_id) of message_tags
LinkExists(d, mid, tid) == BagIn(<<mid, tid>>, d.message_tags)

\* INSERT INTO message_tags (message_id, tag_id) VALUES (?, ?)
InsertLinkSkipped(d, mid, tid) == d

InsertLink(d, mid, tid) ==
  [d EXCEPT !.message_tags = @ (+) SetToBag({<<mid, tid>>})]

\* INSERT INTO reactions ... ON CONFLICT(message_id, user_id, reaction)
\* DO UPDATE SET reaction = excluded.reaction
\* A conflicting row is rewritten with the value it already has.
UpsertReactionPlain(d, mid, uid, r) ==
  [d EXCEPT !.reactions = @ (+) SetToBag({<<mid, uid, r>>})]

UpsertReaction(d, mid, uid, r) ==
  IF BagIn(<<mid, uid, r>>, d.reactions) THEN d
  ELSE [d EXCEPT !.reactions = @ (+) SetToBag({<<mid, uid, r>>})]

\* SELECT reaction, COUNT(*) FROM reactions WHERE message_id = ?
\* GROUP BY reaction  -> dict
ReactionCounts(d, mid) ==
  LET rows == {x \in BagToSet(d.reactions) : x[1] = mid}
  IN  [r \in {x[3] : x \in rows} |->
         BagCardinality([x \in {y \in rows : y[3] = r} |-> d.reactions[x]])]

\* INSERT INTO comments (user_id, message_id, content) VALUES (?, ?, ?)
\* The table's REFERENCES messages(id) is not enforced: the connection never
\* turns foreign_keys on.
InsertComment(d, uid, mid, content) ==
  [d EXCEPT !.comments = @ \cup
     {[id |-> NextId(d.comments), user_id |-> uid, message_id |-> mid,
       content |-> content, timestamp |-> clock]}]

\* UPDATE messages SET video_url = ? WHERE video_id = ?
UpdateUrlByHandleReplacing(d, url, h) ==
  [d EXCEPT !.messages =
     {[m EXCEPT !.video_url = url, !.timestamp = clock] :
        m \in {x \in @ : x.video_id = h}}]

UpdateUrlByHandle(d, url, h) ==
  [d EXCEPT !.messages =
     {IF m.video_id = h THEN [m EXCEPT !.video_url = url] ELSE m : m \in @}]

\* UPDATE messages SET video_url = ? WHERE id = ?
UpdateUrlById(d, url, mid) ==
  [d EXCEPT !.messages =
     {IF m.id = mid THEN [m EXCEPT !.video_url = url] ELSE m : m \in @}]

\* ------------------------------------------------------- Luma video jobs
\* A job the provider knows is queued, then dreaming, then completed (with
\* its video URL) or failed; completed and failed are final.
NoJob == [state |-> "none", url |-> NULL]

\* generate_video_with_luma: the provider registers a job and returns its id.
SubmitJob(h) ==
  /\ jobs[h].state = "none"
  /\ jobs' = [jobs EXCEPT ![h] = [state |-> "queued", url |-> NULL]]

JobAdvance(h) ==
  /\ \/ /\ jobs[h].state = "queued"
        /\ jobs' = [jobs EXCEPT ![h].state = "dreaming"]
     \/ /\ jobs[h].state = "dreaming"
        /\ \E u \in Urls :
             jobs' = [jobs EXCEPT ![h] = [state |-> "completed", url |-> u]]
     \/ /\ jobs[h].state = "dreaming"
        /\ jobs' = [jobs EXCEPT ![h].state = "failed"]
  /\ UNCHANGED <<db, wdb, writer, procs, lastEvent, display, apiKeys, polls,
                 channels, clock>>

\* The error texts of the gateway functions: the fixed text for a missing
\* key, and str(e) of the requests exception.
KeyNotSet == "API key not set"
RequestException == "str(e)"

\* get_video_status(generation_id) -> (data, error).  Without the key nothing
\* is sent.  With it the request is sent and either fails (network, HTTP
\* error status, unknown id) or brings the job as the provider reports it.
\* sent tells whether a request went to the provider.
GetVideoStatus(h) ==
  IF ~apiKeys.luma
  THEN {[error |-> KeyNotSet, sent |-> FALSE, state |-> "", url |-> NULL]}
  ELSE {[error |-> RequestException, sent |-> TRUE, state |-> "",
         url |-> NULL]} \cup
       (IF jobs[h].state = "none" THEN {}
        ELSE {[error |-> NULL, sent |-> TRUE, state |-> jobs[h].state,
               url |-> jobs[h].url]})

\* generate_image_with_stability(prompt) -> (image_data, error)
GenerateImageWithStability ==
  IF ~apiKeys.stability
  THEN {[error |-> KeyNotSet, sent |-> FALSE, image_data |-> NULL]}
  ELSE {[error |-> RequestException, sent |-> TRUE, image_data |-> NULL],
        [error |-> NULL, sent |-> TRUE, image_data |-> "img"]}

\* --------------------------------------------------------------- requests
\* error is the error the handler got from the gateway function; sent tells
\* whether the request made a call to the provider; loop names the client
\* poll loop that made the request and still awaits its answer.
IdleProc ==
  [op |-> "idle", pc |-> "idle", user |-> 0, content |-> NULL, tags |-> <<>>,
   image_data |-> NULL, video_id |-> NULL, video_url |-> NULL,
   message_id |-> 0, comment_id |-> 0, i |-> 0, reaction |-> "",
   reactions |-> <<>>, status |-> "", error |-> NULL, sent |-> FALSE,
   loop |-> "", resp |-> "", emitted |-> 0, tag_name |-> <<>>,
   messages |-> <<>>, popular_tags |-> <<>>]

NoEvent ==
  [type |-> "none", message_id |-> 0, content |-> NULL, video_id |-> NULL,
   video_url |-> NULL, tags |-> <<>>, reactions |-> <<>>, user |-> 0]

\* The Socket.IO channels: a client's channel is connected or not, and
\* received lists the events it was sent, in order.  The server keeps none.
Clients == {"c1", "c2"}
NoChannels == [c \in Clients |-> [connected |-> FALSE, received |-> <<>>]]

\* socketio.emit(event, data) with no room: one copy to every channel that is
\* connected now.
Deliver(ch, ev) ==
  [c \in Clients |->
     IF ch[c].connected THEN [ch[c] EXCEPT !.received = Append(@, ev)]
     ELSE ch[c]]

\* The environment with both provider keys set.
KeysSet == [stability |-> TRUE, luma |-> TRUE]

\* The client's poll loops of a handle: the one generateVideo starts on the
\* submitter's page and the one createMessageElement starts on a viewer's.
Loops == {"submit", "view"}
NoPolls == [h \in Handles |-> [l \in Loops |-> "off"]]

Init ==
  /\ clock = 0
  /\ db = EmptyDb
  /\ wdb = EmptyDb
  /\ writer = 0
  /\ procs = [p \in Procs |-> IdleProc]
  /\ jobs = [h \in Handles |-> NoJob]
  /\ lastEvent = NoEvent
  /\ display = <<>>
  /\ apiKeys = KeysSet
  /\ polls = NoPolls
  /\ channels = NoChannels

InFlightComments ==
  Cardinality({p \in Procs : procs[p].op = "post_comment"
                             /\ procs[p].pc # "returned"})

InFlightPosts ==
  Cardinality({p \in Procs : procs[p].op = "post_message"
                             /\ procs[p].pc # "returned"})

\* @login_required: user 0 is a request with no logged-in session.
IsAuthenticatedAlways(u) == TRUE

IsAuthenticated(u) == u # 0

\* login_manager.unauthorized(): the redirect to the login view; the handler
\* never runs.
Unauthorized(q) == [q EXCEPT !.pc = "returned", !.resp = "302 login"]

\* return <response>: the handler is over, the app context is still open.
Return(p, code) ==
  [procs[p] EXCEPT !.pc = "returned", !.resp = code, !.i = 0,
                   !.reactions = <<>>]

\* teardown_appcontext: close the connection; closing rolls back whatever the
\* request wrote and did not commit.
CloseConnectionKeeping(p) ==
  /\ procs[p].pc = "returned"
  /\ procs' = [procs EXCEPT ![p] = IdleProc]
  /\ UNCHANGED <<db, wdb, writer, jobs, lastEvent, display, apiKeys, polls,
                 channels, clock>>

CloseConnection(p) ==
  /\ procs[p].pc = "returned"
  /\ procs' = [procs EXCEPT ![p] = IdleProc]
  /\ IF writer = p
     THEN writer' = 0 /\ wdb' = db
     ELSE UNCHANGED <<writer, wdb>>
  /\ UNCHANGED <<db, jobs, lastEvent, display, apiKeys, polls, channels,
                 clock>>

\* db.commit()
CommitSkipped(p) == UNCHANGED <<db, wdb, writer>>

Commit(p) ==
  /\ db' = View(p)
  /\ wdb' = View(p)
  /\ writer' = IF writer = p THEN 0 ELSE writer

\* ------------------------------------------------------------ post_message
\* Line 262: if content or image_data or video_id
NothingRequired(content, image_data, video_id) == TRUE

HasSomethingToPost(content, image_data, video_id) ==
  Truthy(content) \/ Truthy(image_data) \/ Truthy(video_id)

\* Lines 255-262: read the form, log, test for something to post.
PostMessageStart(p, cap, users, contents, forms, images, videos) ==
  /\ procs[p].pc = "idle"
  /\ Cardinality(db.messages) + InFlightPosts < cap
  /\ \E u \in users, c \in contents, t \in forms, im \in images, v \in videos :
       LET q == [IdleProc EXCEPT !.op = "post_message", !.user = u,
                   !.content = c, !.tags = t, !.image_data = im,
                   !.video_id = v]
       IN  procs' = [procs EXCEPT ![p] =
             IF ~IsAuthenticated(u) THEN Unauthorized(q)
             ELSE IF c = NULL THEN [q EXCEPT !.pc = "returned", !.resp = "500"]
             ELSE IF ~HasSomethingToPost(c, im, v)
               THEN [q EXCEPT !.pc = "returned", !.resp = "302"]
             ELSE IF Truthy(v) THEN [q EXCEPT !.pc = "pm_status"]
             ELSE [q EXCEPT !.pc = "pm_insert"]]
  /\ UNCHANGED <<db, wdb, writer, jobs, lastEvent, display, apiKeys, polls,
                 channels, clock>>

\* Lines 268-271: one status check for the attached handle.  A handle the
\* provider never issued gets the provider's error answer.
PostMessageStatus(p) ==
  /\ procs[p].pc = "pm_status"
  /\ \E res \in GetVideoStatus(procs[p].video_id) :
       procs' = [procs EXCEPT ![p].pc = "pm_insert",
                   ![p].error = res.error, ![p].sent = res.sent,
                   ![p].video_url =
                     IF ~Truthy(res.error) /\ res.state = "completed"
                     THEN res.url ELSE NULL]
  /\ UNCHANGED <<db, wdb, writer, jobs, lastEvent, display, apiKeys, polls,
                 channels, clock>>

\* Lines 273-275: INSERT INTO messages, message_id = cursor.lastrowid.
PostMessageInsert(p) ==
  /\ procs[p].pc = "pm_insert"
  /\ CanWrite(p)
  /\ writer' = p
  /\ wdb' = InsertMessage(View(p), procs[p].user, procs[p].content,
                          procs[p].image_data, procs[p].video_id,
                          procs[p].video_url)
  /\ procs' = [procs EXCEPT ![p].pc = "pm_tags", ![p].i = 1,
                 ![p].message_id = NextId(View(p).messages)]
  /\ UNCHANGED <<db, jobs, lastEvent, display, apiKeys, polls, channels,
                 clock>>

\* Lines 279-286, one pass of the loop over tags.
PostMessageTag(p) ==
  /\ procs[p].pc = "pm_tags"
  /\ procs[p].i <= Len(Split(procs[p].tags))
  /\ LET tag == NormalizeTag(Split(procs[p].tags)[procs[p].i])
         d1  == InsertOrIgnoreTag(wdb, tag)
         tid == SelectTagId(d1, tag)
     IN  IF tag = <<>>
         THEN /\ procs' = [procs EXCEPT ![p].i = @ + 1]
              /\ UNCHANGED wdb
         ELSE IF LinkExists(d1, procs[p].message_id, tid)
         THEN \* sqlite3.IntegrityError leaves the handler: 500
              /\ wdb' = d1
              /\ procs' = [procs EXCEPT ![p] = Return(p, "500")]
         ELSE /\ wdb' = InsertLink(d1, procs[p].message_id, tid)
              /\ procs' = [procs EXCEPT ![p].i = @ + 1]
  /\ UNCHANGED <<db, writer, jobs, lastEvent, display, apiKeys, polls,
                 channels, clock>>

\* Line 288.
PostMessageCommit(p) ==
  /\ procs[p].pc = "pm_tags"
  /\ procs[p].i > Len(Split(procs[p].tags))
  /\ Commit(p)
  /\ procs' = [procs EXCEPT ![p].pc = "pm_select"]
  /\ UNCHANGED <<jobs, lastEvent, display, apiKeys, polls, channels, clock>>

\* Lines 290-296: read the row back.
PostMessageSelectSkipped(p) ==
  /\ procs[p].pc = "pm_select"
  /\ procs' = [procs EXCEPT ![p].pc = "pm_emit"]
  /\ UNCHANGED <<db, wdb, writer, jobs, lastEvent, display, apiKeys, polls,
                 channels, clock>>

PostMessageSelect(p) ==
  /\ procs[p].pc = "pm_select"
  /\ \E m \in View(p).messages :
       /\ m.id = procs[p].message_id
       /\ procs' = [procs EXCEPT ![p].pc = "pm_emit",
                      ![p].video_url = m.video_url]
  /\ UNCHANGED <<db, wdb, writer, jobs, lastEvent, display, apiKeys, polls,
                 channels, clock>>

\* socket.on('new_message'): the page gets an element for the message, with
\* an empty reactions block.
ClientNewMessage(disp, mid) ==
  [m \in DOMAIN disp \cup {mid} |-> IF m = mid THEN <<>> ELSE disp[m]]

\* createMessageElement, lines 866-868: a message with a handle and no URL
\* starts the viewer's poll loop of the handle.
ClientStartPoll(pl, video_id, video_url) ==
  IF Truthy(video_id) /\ ~Truthy(video_url) /\ video_id \in DOMAIN pl
  THEN [pl EXCEPT ![video_id]["view"] = IF @ = "inflight" THEN @ ELSE "due"]
  ELSE pl

\* Lines 300-311: emit new_message, redirect.
PostMessageEmit(p) ==
  /\ procs[p].pc = "pm_emit"
  /\ lastEvent' = [type |-> "new_message",
                   message_id |-> procs[p].message_id,
                   content |-> procs[p].content,
                   video_id |-> procs[p].video_id,
                   video_url |-> procs[p].video_url,
                   tags |-> Split(procs[p].tags),
                   reactions |-> <<>>,
                   user |-> procs[p].user]
  /\ channels' = Deliver(channels, lastEvent')
  /\ display' = ClientNewMessage(display, procs[p].message_id)
  /\ polls' = ClientStartPoll(polls, procs[p].video_id, procs[p].video_url)
  /\ procs' = [procs EXCEPT ![p] =
                 [Return(p, "302") EXCEPT !.emitted = @ + 1]]
  /\ UNCHANGED <<db, wdb, writer, jobs, apiKeys, clock>>

\* ------------------------------------------------------------ post_comment
\* Lines 416-420: /post_comment/<int:message_id>, the content field.
PostCommentStart(p, users, mids, contents) ==
  /\ procs[p].pc = "idle"
  /\ Cardinality(db.comments) + InFlightComments < MaxComments
  /\ \E u \in users, m \in mids, c \in contents :
       LET q == [IdleProc EXCEPT !.op = "post_comment", !.user = u,
                   !.message_id = m, !.content = c]
       IN  procs' = [procs EXCEPT ![p] =
             IF ~IsAuthenticated(u) THEN Unauthorized(q)
             ELSE IF ~Truthy(c) THEN [q EXCEPT !.pc = "returned",
                                               !.resp = "302"]
             ELSE [q EXCEPT !.pc = "pc_insert"]]
  /\ UNCHANGED <<db, wdb, writer, jobs, lastEvent, display, apiKeys, polls,
                 channels, clock>>

\* Lines 423-425: INSERT INTO comments, comment_id = cursor.lastrowid.
PostCommentInsert(p) ==
  /\ procs[p].pc = "pc_insert"
  /\ CanWrite(p)
  /\ writer' = p
  /\ wdb' = InsertComment(View(p), procs[p].user, procs[p].message_id,
                          procs[p].content)
  /\ procs' = [procs EXCEPT ![p].pc = "pc_commit",
                 ![p].comment_id = NextId(View(p).comments)]
  /\ UNCHANGED <<db, jobs, lastEvent, display, apiKeys, polls, channels,
                 clock>>

\* Line 426.
PostCommentCommit(p) ==
  /\ procs[p].pc = "pc_commit"
  /\ Commit(p)
  /\ procs' = [procs EXCEPT ![p].pc = "pc_select"]
  /\ UNCHANGED <<jobs, lastEvent, display, apiKeys, polls, channels, clock>>

\* Lines 428-434: read the row back.
PostCommentSelect(p) ==
  /\ procs[p].pc = "pc_select"
  /\ \E c \in View(p).comments :
       /\ c.id = procs[p].comment_id
       /\ procs' = [procs EXCEPT ![p].pc = "pc_emit",
                      ![p].content = c.content, ![p].user = c.user_id]
  /\ UNCHANGED <<db, wdb, writer, jobs, lastEvent, display, apiKeys, polls,
                 channels, clock>>

\* Lines 436-443: emit new_comment, redirect.  The page appends the comment
\* to the element of the message; its reactions block stays as it is.
PostCommentEmit(p) ==
  /\ procs[p].pc = "pc_emit"
  /\ lastEvent' = [NoEvent EXCEPT !.type = "new_comment",
                     !.message_id = procs[p].message_id,
                     !.content = procs[p].content,
                     !.user = procs[p].user]
  /\ channels' = Deliver(channels, lastEvent')
  /\ procs' = [procs EXCEPT ![p] =
                 [Return(p, "302") EXCEPT !.emitted = @ + 1]]
  /\ UNCHANGED <<db, wdb, writer, jobs, display, apiKeys, polls, clock>>

\* ------------------------------------------------------------ add_reaction
\* Line 505: /add_reaction/<int:message_id>/<reaction>
AddReactionStart(p, users, mids, reactions) ==
  /\ procs[p].pc = "idle"
  /\ \E u \in users, m \in mids, r \in reactions :
       LET q == [IdleProc EXCEPT !.op = "add_reaction", !.user = u,
                   !.message_id = m, !.reaction = r]
       IN  procs' = [procs EXCEPT ![p] =
             IF ~IsAuthenticated(u) THEN Unauthorized(q)
             ELSE [q EXCEPT !.pc = "ar_upsert"]]
  /\ UNCHANGED <<db, wdb, writer, jobs, lastEvent, display, apiKeys, polls,
                 channels, clock>>

\* Lines 509-513: the upsert.
AddReactionUpsert(p) ==
  /\ procs[p].pc = "ar_upsert"
  /\ CanWrite(p)
  /\ writer' = p
  /\ wdb' = UpsertReaction(View(p), procs[p].message_id, procs[p].user,
                           procs[p].reaction)
  /\ procs' = [procs EXCEPT ![p].pc = "ar_commit"]
  /\ UNCHANGED <<db, jobs, lastEvent, display, apiKeys, polls, channels,
                 clock>>

\* Lines 530-532: the upsert raises, here sqlite3.OperationalError (database
\* is locked) when another connection keeps the write lock past the busy
\* timeout; the handler prints and answers 500.
AddReactionErrorEmitting(p) ==
  /\ procs[p].pc = "ar_upsert"
  /\ ~CanWrite(p)
  /\ lastEvent' = [NoEvent EXCEPT !.type = "reaction_update",
                     !.message_id = procs[p].message_id]
  /\ channels' = Deliver(channels, lastEvent')
  /\ procs' = [procs EXCEPT ![p] =
                 [Return(p, "500") EXCEPT !.emitted = @ + 1]]
  /\ UNCHANGED <<db, wdb, writer, jobs, display, apiKeys, polls, clock>>

AddReactionError(p) ==
  /\ procs[p].pc = "ar_upsert"
  /\ ~CanWrite(p)
  /\ procs' = [procs EXCEPT ![p] = Return(p, "500")]
  /\ UNCHANGED <<db, wdb, writer, jobs, lastEvent, display, apiKeys, polls,
                 channels, clock>>

\* Line 514.
AddReactionCommit(p) ==
  /\ procs[p].pc = "ar_commit"
  /\ Commit(p)
  /\ procs' = [procs EXCEPT ![p].pc = "ar_select"]
  /\ UNCHANGED <<jobs, lastEvent, display, apiKeys, polls, channels, clock>>

\* Lines 516-522: the grouped counts of the message.
AddReactionSelect(p) ==
  /\ procs[p].pc = "ar_select"
  /\ procs' = [procs EXCEPT ![p].pc = "ar_emit",
                 ![p].reactions = ReactionCounts(View(p), procs[p].message_id)]
  /\ UNCHANGED <<db, wdb, writer, jobs, lastEvent, display, apiKeys, polls,
                 channels, clock>>

\* socket.on('reaction_update'): the reactions block of the message's
\* element, when the page has one, is rebuilt from the event.
ClientReactionUpdate(disp, mid, reactions) ==
  IF mid \in DOMAIN disp THEN [disp EXCEPT ![mid] = reactions] ELSE disp

\* Lines 524-529: emit reaction_update, answer OK.
AddReactionEmit(p) ==
  /\ procs[p].pc = "ar_emit"
  /\ lastEvent' = [NoEvent EXCEPT !.type = "reaction_update",
                     !.message_id = procs[p].message_id,
                     !.reactions = procs[p].reactions]
  /\ channels' = Deliver(channels, lastEvent')
  /\ display' = ClientReactionUpdate(display, procs[p].message_id,
                                     procs[p].reactions)
  /\ procs' = [procs EXCEPT ![p] =
                 [Return(p, "200") EXCEPT !.emitted = @ + 1]]
  /\ UNCHANGED <<db, wdb, writer, jobs, apiKeys, polls, clock>>

\* ------------------------------------------------------ check_video_status
\* Line 358: if status == 'completed' and video_url
PatchOnAnyStatus(status, video_url) == TRUE

ShouldPatch(status, video_url) == status = "completed" /\ Truthy(video_url)

\* checkVideoStatus, lines 804-822: what the page's poll loop does with the
\* answer.  An error answer ends the loop; completed with a URL ends it; on
\* dreaming or processing the next poll is set for 5 s later; any other
\* status is "unexpected" and nothing more is scheduled.
ClientCheckVideoStatus(pl, h, l, error, status, video_url) ==
  IF l = "" THEN pl
  ELSE [pl EXCEPT ![h][l] =
          IF Truthy(error) THEN "stopped"
          ELSE IF status = "completed" /\ Truthy(video_url) THEN "done"
          ELSE IF status \in {"dreaming", "processing"} THEN "due"
          ELSE "stopped"]

\* A request to /check_video_status/<generation_id> from any client.
CheckVideoStatusStart(p, users) ==
  /\ procs[p].pc = "idle"
  /\ \E u \in users, h \in Handles :
       LET q == [IdleProc EXCEPT !.op = "check_video_status", !.user = u,
                   !.video_id = h]
       IN  procs' = [procs EXCEPT ![p] =
             IF ~IsAuthenticated(u) THEN Unauthorized(q)
             ELSE [q EXCEPT !.pc = "cv_status"]]
  /\ UNCHANGED <<db, wdb, writer, jobs, lastEvent, display, apiKeys, polls,
                 channels, clock>>

\* Lines 803 and 817: the page's poll loop l of handle h sends its request.
ClientPoll(p, users) ==
  /\ procs[p].pc = "idle"
  /\ \E u \in users, h \in Handles, l \in Loops :
       /\ polls[h][l] = "due"
       /\ polls' = [polls EXCEPT ![h][l] = "inflight"]
       /\ procs' = [procs EXCEPT ![p] =
            [IdleProc EXCEPT !.op = "check_video_status", !.pc = "cv_status",
               !.user = u, !.video_id = h, !.loop = l]]
  /\ UNCHANGED <<db, wdb, writer, jobs, lastEvent, display, apiKeys,
                 channels, clock>>

\* Lines 341-358: ask the provider; an error answers 500, a completed job
\* with a URL goes on to the UPDATE, anything else answers with the status.
CheckVideoStatusPoll(p) ==
  /\ procs[p].pc = "cv_status"
  /\ \E res \in GetVideoStatus(procs[p].video_id) :
       /\ procs' = [procs EXCEPT ![p] =
            IF Truthy(res.error)
              THEN [Return(p, "500") EXCEPT !.error = res.error,
                                            !.sent = res.sent, !.loop = ""]
            ELSE IF ShouldPatch(res.state, res.url)
              THEN [procs[p] EXCEPT !.pc = "cv_update", !.status = res.state,
                                    !.video_url = res.url, !.sent = res.sent]
            ELSE [Return(p, "200") EXCEPT !.status = res.state,
                                          !.video_url = res.url,
                                          !.sent = res.sent, !.loop = ""]]
       /\ polls' = IF ~Truthy(res.error) /\ ShouldPatch(res.state, res.url)
                   THEN polls
                   ELSE ClientCheckVideoStatus(polls, procs[p].video_id,
                          procs[p].loop, res.error, res.state, res.url)
  /\ UNCHANGED <<db, wdb, writer, jobs, lastEvent, display, apiKeys,
                 channels, clock>>

\* Line 361.
CheckVideoStatusUpdate(p) ==
  /\ procs[p].pc = "cv_update"
  /\ CanWrite(p)
  /\ writer' = p
  /\ wdb' = UpdateUrlByHandle(View(p), procs[p].video_url, procs[p].video_id)
  /\ procs' = [procs EXCEPT ![p].pc = "cv_commit"]
  /\ UNCHANGED <<db, jobs, lastEvent, display, apiKeys, polls, channels,
                 clock>>

\* Lines 362-369: commit and answer with the status; no socketio.emit.
CheckVideoStatusCommitEmitting(p) ==
  /\ procs[p].pc = "cv_commit"
  /\ Commit(p)
  /\ procs' = [procs EXCEPT ![p] = [Return(p, "200") EXCEPT !.loop = ""]]
  /\ polls' = ClientCheckVideoStatus(polls, procs[p].video_id, procs[p].loop,
                                     NULL, procs[p].status, procs[p].video_url)
  /\ lastEvent' = [NoEvent EXCEPT !.type = "video_update",
                     !.video_id = procs[p].video_id,
                     !.video_url = procs[p].video_url]
  /\ UNCHANGED <<jobs, display, apiKeys, channels, clock>>

CheckVideoStatusCommit(p) ==
  /\ procs[p].pc = "cv_commit"
  /\ Commit(p)
  /\ procs' = [procs EXCEPT ![p] = [Return(p, "200") EXCEPT !.loop = ""]]
  /\ polls' = ClientCheckVideoStatus(polls, procs[p].video_id, procs[p].loop,
                                     NULL, procs[p].status, procs[p].video_url)
  /\ UNCHANGED <<jobs, lastEvent, display, apiKeys, channels, clock>>

\* -------------------------------------------------------- update_video_url
\* Lines 537-541 and 547-548: message_id 0 and video_url NULL stand for a
\* missing or empty JSON field.
UpdateVideoUrlStart(p, users, mids) ==
  /\ procs[p].pc = "idle"
  /\ \E u \in users, m \in mids, w \in ClientUrls \cup {NULL} :
       procs' = [procs EXCEPT ![p] =
         LET q == [IdleProc EXCEPT !.op = "update_video_url", !.user = u,
                     !.message_id = m, !.video_url = w]
         IN  IF ~IsAuthenticated(u) THEN Unauthorized(q)
             ELSE IF m # 0 /\ Truthy(w) THEN [q EXCEPT !.pc = "uv_update"]
             ELSE [q EXCEPT !.pc = "returned", !.resp = "400"]]
  /\ UNCHANGED <<db, wdb, writer, jobs, lastEvent, display, apiKeys, polls,
                 channels, clock>>

\* Line 544.
UpdateVideoUrlUpdate(p) ==
  /\ procs[p].pc = "uv_update"
  /\ CanWrite(p)
  /\ writer' = p
  /\ wdb' = UpdateUrlById(View(p), procs[p].video_url, procs[p].message_id)
  /\ procs' = [procs EXCEPT ![p].pc = "uv_commit"]
  /\ UNCHANGED <<db, jobs, lastEvent, display, apiKeys, polls, channels,
                 clock>>

\* Lines 545-546.
UpdateVideoUrlCommit(p) ==
  /\ procs[p].pc = "uv_commit"
  /\ Commit(p)
  /\ procs' = [procs EXCEPT ![p] = Return(p, "200")]
  /\ UNCHANGED <<jobs, lastEvent, display, apiKeys, polls, channels, clock>>

\* ---------------------------------------------------------- generate_video
\* Lines 327-336 with generate_video_with_luma: submit the job; the answer is
\* the generation id or, when there is no key or the request to the provider
\* fails, the error with status 500.  Lines 791-796: on a generation id the
\* page starts the submitter's poll loop.
GenerateVideo(p, users) ==
  /\ procs[p].pc = "idle"
  /\ \E u \in users :
       \/ /\ IsAuthenticated(u)
          /\ apiKeys.luma
          /\ \E h \in Handles :
               /\ SubmitJob(h)
               /\ procs' = [procs EXCEPT ![p] =
                    [IdleProc EXCEPT !.op = "generate_video", !.user = u,
                       !.pc = "returned", !.resp = "200", !.video_id = h,
                       !.sent = TRUE]]
               /\ polls' = [polls EXCEPT ![h]["submit"] = "due"]
       \/ /\ LET q == [IdleProc EXCEPT !.op = "generate_video", !.user = u]
             IN  procs' = [procs EXCEPT ![p] =
                   IF ~IsAuthenticated(u) THEN Unauthorized(q)
                   ELSE [q EXCEPT !.pc = "returned", !.resp = "500",
                           !.sent = apiKeys.luma,
                           !.error = IF apiKeys.luma THEN RequestException
                                     ELSE KeyNotSet]]
          /\ UNCHANGED <<jobs, polls>>
  /\ UNCHANGED <<db, wdb, writer, lastEvent, display, apiKeys, channels,
                 clock>>

\* ---------------------------------------------------------- generate_image
\* Lines 316-322: the image payload, or the error with status 500.
GenerateImageEmitting(p, users) ==
  /\ procs[p].pc = "idle"
  /\ \E u \in users, res \in GenerateImageWithStability :
       LET q == [IdleProc EXCEPT !.op = "generate_image", !.user = u]
       IN  /\ procs' = [procs EXCEPT ![p] =
                IF ~IsAuthenticated(u) THEN Unauthorized(q)
                ELSE IF Truthy(res.error)
                  THEN [q EXCEPT !.pc = "returned", !.resp = "500",
                                 !.error = res.error, !.sent = res.sent]
                ELSE [q EXCEPT !.pc = "returned", !.resp = "200",
                               !.image_data = res.image_data,
                               !.sent = res.sent]]
           /\ lastEvent' = [NoEvent EXCEPT !.type = "new_image"]
  /\ UNCHANGED <<db, wdb, writer, jobs, display, apiKeys, polls, channels,
                 clock>>

GenerateImage(p, users) ==
  /\ procs[p].pc = "idle"
  /\ \E u \in users, res \in GenerateImageWithStability :
       LET q == [IdleProc EXCEPT !.op = "generate_image", !.user = u]
       IN  procs' = [procs EXCEPT ![p] =
             IF ~IsAuthenticated(u) THEN Unauthorized(q)
             ELSE IF Truthy(res.error)
               THEN [q EXCEPT !.pc = "returned", !.resp = "500",
                              !.error = res.error, !.sent = res.sent]
             ELSE [q EXCEPT !.pc = "returned", !.resp = "200",
                            !.image_data = res.image_data,
                            !.sent = res.sent]]
  /\ UNCHANGED <<db, wdb, writer, jobs, lastEvent, display, apiKeys, polls,
                 channels, clock>>

\* ------------------------------------------------------- index, view_tag
\* The orders a result may come in: every arrangement of the rows, and those
\* an ORDER BY allows.  Rows equal in the sort column come in any order.
Arrangements(rows) ==
  {f \in [1..Cardinality(rows) -> rows] :
     \A i, j \in 1..Cardinality(rows) : i # j => f[i] # f[j]}

OrderByTimestampAny(rows) == Arrangements(rows)

OrderByTimestampDesc(rows) ==
  {f \in Arrangements(rows) :
     \A i \in 1..(Cardinality(rows) - 1) :
       f[i].timestamp >= f[i + 1].timestamp}

OrderByTimestampAsc(rows) ==
  {f \in Arrangements(rows) :
     \A i \in 1..(Cardinality(rows) - 1) :
       f[i].timestamp <= f[i + 1].timestamp}

\* FROM messages JOIN users ON messages.user_id = users.id
SelectMessages(d) == {m \in d.messages : m.user_id \in Users}

\* ... JOIN message_tags ... JOIN tags ... WHERE tags.name = ?
SelectMessagesByTag(d, name) ==
  {m \in SelectMessages(d) :
     \E t \in d.tags : t.name = name /\ LinkExists(d, m.id, t.id)}

\* FROM comments JOIN users ... WHERE comments.message_id = ?
SelectComments(d, mid) ==
  {c \in d.comments : c.message_id = mid /\ c.user_id \in Users}

\* SELECT tags.name FROM tags JOIN message_tags ... WHERE message_id = ?
SelectTagNames(d, mid) ==
  {t.name : t \in {x \in d.tags : LinkExists(d, mid, x.id)}}

\* The element of the messages list of a page: the row's columns, then the
\* comments, tags and reactions the loop adds.
PageRow(m) ==
  [id |-> m.id, timestamp |-> m.timestamp, video_url |-> m.video_url,
   comments |-> <<>>, tags |-> {}, reactions |-> <<>>]

\* The page loads of the model are those of one browser window, which loads
\* one page at a time.
InFlightLoads ==
  Cardinality({p \in Procs : procs[p].op \in {"index", "view_tag"}
                             /\ procs[p].pc # "returned"})

\* Lines 202-210: GET /, the SELECT of the messages.
IndexStart(p) ==
  /\ procs[p].pc = "idle"
  /\ InFlightLoads = 0
  /\ \E f \in OrderByTimestampDesc(SelectMessages(View(p))) :
       procs' = [procs EXCEPT ![p] =
         [IdleProc EXCEPT !.op = "index", !.pc = "fd_comments", !.i = 1,
            !.messages = [k \in DOMAIN f |-> PageRow(f[k])]]]
  /\ UNCHANGED <<db, wdb, writer, jobs, lastEvent, display, apiKeys, polls,
                 channels, clock>>

\* Lines 372-383: GET /tag/<tag_name>, the SELECT of the tag's messages.
ViewTagStart(p, names) ==
  /\ procs[p].pc = "idle"
  /\ InFlightLoads = 0
  /\ \E n \in names :
       \E f \in OrderByTimestampDesc(SelectMessagesByTag(View(p), n)) :
         procs' = [procs EXCEPT ![p] =
           [IdleProc EXCEPT !.op = "view_tag", !.pc = "fd_comments", !.i = 1,
              !.tag_name = n,
              !.messages = [k \in DOMAIN f |-> PageRow(f[k])]]]
  /\ UNCHANGED <<db, wdb, writer, jobs, lastEvent, display, apiKeys, polls,
                 channels, clock>>

\* Lines 213-220 (index) and 386-393 (view_tag): the comments of message i.
FeedComments(p) ==
  /\ procs[p].pc = "fd_comments"
  /\ procs[p].i <= Len(procs[p].messages)
  /\ \E f \in OrderByTimestampAsc(
                SelectComments(View(p), procs[p].messages[procs[p].i].id)) :
       procs' = [procs EXCEPT ![p].pc = "fd_tags",
                   ![p].messages[procs[p].i].comments = f]
  /\ UNCHANGED <<db, wdb, writer, jobs, lastEvent, display, apiKeys, polls,
                 channels, clock>>

\* Lines 222-228 and 395-401: the tags of message i.
FeedTags(p) ==
  /\ procs[p].pc = "fd_tags"
  /\ procs' = [procs EXCEPT ![p].pc = "fd_reactions",
                 ![p].messages[procs[p].i].tags =
                   SelectTagNames(View(p), procs[p].messages[procs[p].i].id)]
  /\ UNCHANGED <<db, wdb, writer, jobs, lastEvent, display, apiKeys, polls,
                 channels, clock>>

\* Lines 230-238 and 403-411: the reaction counts of message i; next message.
FeedReactions(p) ==
  /\ procs[p].pc = "fd_reactions"
  /\ procs' = [procs EXCEPT ![p].pc = "fd_comments", ![p].i = @ + 1,
                 ![p].messages[procs[p].i].reactions =
                   ReactionCounts(View(p), procs[p].messages[procs[p].i].id)]
  /\ UNCHANGED <<db, wdb, writer, jobs, lastEvent, display, apiKeys, polls,
                 channels, clock>>

\* LIMIT 10
PopularLimit == 10

\* SELECT tags.name, COUNT(*) ... JOIN message_tags ... GROUP BY tags.id: one
\* row for every tag that has a link.
TagCounts(d) ==
  {[id |-> t.id, name |-> t.name,
    tag_count |-> BagCardinality(
      [x \in {y \in BagToSet(d.message_tags) : y[2] = t.id}
         |-> d.message_tags[x]])] :
   t \in {u \in d.tags : \E y \in BagToSet(d.message_tags) : y[2] = u.id}}

\* ORDER BY tag_count DESC LIMIT 10.  The query names no second sort column:
\* rows of equal count come in the order of the plan SQLite picks (by tag id
\* ascending when it scans tags, descending out of the sorter when it scans
\* message_tags), so any order of them is a result.
OrderByCountDesc(rows) ==
  {f \in Arrangements(rows) :
     \A i \in 1..(Cardinality(rows) - 1) :
       f[i].tag_count >= f[i + 1].tag_count}

PopularTags(d) ==
  {[k \in 1..(IF Len(f) < PopularLimit THEN Len(f) ELSE PopularLimit) |->
      <<f[k].name, f[k].tag_count>>] : f \in OrderByCountDesc(TagCounts(d))}

\* Lines 240-250: the popular tags, then the page.
IndexPopular(p) ==
  /\ procs[p].pc = "fd_comments"
  /\ procs[p].op = "index"
  /\ procs[p].i > Len(procs[p].messages)
  /\ \E r \in PopularTags(View(p)) :
       procs' = [procs EXCEPT ![p] =
                   [Return(p, "200") EXCEPT !.popular_tags = r,
                                            !.messages = <<>>]]
  /\ UNCHANGED <<db, wdb, writer, jobs, lastEvent, display, apiKeys, polls,
                 channels, clock>>

\* Line 414: the page of the tag.
ViewTagRender(p) ==
  /\ procs[p].pc = "fd_comments"
  /\ procs[p].op = "view_tag"
  /\ procs[p].i > Len(procs[p].messages)
  /\ procs' = [procs EXCEPT ![p] =
                 [Return(p, "200") EXCEPT !.messages = <<>>]]
  /\ UNCHANGED <<db, wdb, writer, jobs, lastEvent, display, apiKeys, polls,
                 channels, clock>>

\* --------------------------------------------------- Socket.IO connections
\* handle_connect, lines 1116-1118: the channel is connected; the handler
\* prints and sends nothing.
ConnectReplaying(c) ==
  /\ ~channels[c].connected
  /\ channels' = [channels EXCEPT ![c].connected = TRUE,
                                  ![c].received = Append(@, lastEvent)]
  /\ UNCHANGED <<db, wdb, writer, procs, jobs, lastEvent, display, apiKeys,
                 polls, clock>>

Connect(c) ==
  /\ ~channels[c].connected
  /\ channels' = [channels EXCEPT ![c].connected = TRUE]
  /\ UNCHANGED <<db, wdb, writer, procs, jobs, lastEvent, display, apiKeys,
                 polls, clock>>

\* handle_disconnect, lines 1120-1122.
Disconnect(c) ==
  /\ channels[c].connected
  /\ channels' = [channels EXCEPT ![c].connected = FALSE]
  /\ UNCHANGED <<db, wdb, writer, procs, jobs, lastEvent, display, apiKeys,
                 polls, clock>>

\* ------------------------------------------------------------------ time
\* CURRENT_TIMESTAMP counts whole seconds.
MaxClock == 1

Tick ==
  /\ clock < MaxClock
  /\ clock' = clock + 1
  /\ UNCHANGED <<db, wdb, writer, procs, jobs, lastEvent, display, apiKeys,
                 polls, channels>>

\* ---------------------------------------------------------- specifications
PostMessageSteps(p) ==
  \/ PostMessageInsert(p)
  \/ PostMessageTag(p)
  \/ PostMessageCommit(p)
  \/ PostMessageSelect(p)
  \/ PostMessageEmit(p)
  \/ CloseConnection(p)

\* Posting with tags: every form of the tags field.
NextTags ==
  \E p \in Procs :
    \/ PostMessageStart(p, MaxMessages, {1}, {"hello"}, TagForms, {NULL},
                        {NULL})
    \/ PostMessageSteps(p)

SpecTags == Init /\ [][NextTags]_vars

\* Posting: every combination of missing, empty and present content, image
\* and video handle.
NextPost ==
  \/ \E h \in Handles : JobAdvance(h)
  \/ \E p \in Procs :
       \/ GenerateVideo(p, {1})
       \/ PostMessageStart(p, MaxVideoMessages, {1}, {NULL, "", "hello"},
                           {<<"a">>}, {"", "img"}, {""} \cup Handles)
       \/ PostMessageStatus(p)
       \/ PostMessageSteps(p)

SpecPost == Init /\ [][NextPost]_vars

\* Reacting.  The board holds one message, posted by user 1 with no tags and
\* no media and shown on the client's page; users react to it.
InitReact ==
  /\ clock = 0
  /\ db = InsertMessage(EmptyDb, 1, "hello", NULL, NULL, NULL)
  /\ wdb = db
  /\ writer = 0
  /\ procs = [p \in Procs |-> IdleProc]
  /\ jobs = [h \in Handles |-> NoJob]
  /\ lastEvent = [NoEvent EXCEPT !.type = "new_message", !.message_id = 1,
                    !.content = "hello", !.tags = Split(<<>>)]
  /\ display = ClientNewMessage(<<>>, 1)
  /\ apiKeys = KeysSet
  /\ polls = NoPolls
  /\ channels = NoChannels

NextReact ==
  \E p \in Procs :
    \/ AddReactionStart(p, Users, {1}, Reactions)
    \/ AddReactionUpsert(p)
    \/ AddReactionCommit(p)
    \/ AddReactionSelect(p)
    \/ AddReactionEmit(p)
    \/ CloseConnection(p)

SpecReact == InitReact /\ [][NextReact]_vars

\* Video: jobs are submitted and advance at the provider, messages carry
\* their handles, and the stored URL is patched by both endpoints.
NextVideo ==
  \/ \E h \in Handles : JobAdvance(h)
  \/ \E p \in Procs :
       \/ GenerateVideo(p, {1})
       \/ PostMessageStart(p, MaxVideoMessages, {1}, {"hello"}, {<<>>}, {NULL},
                           Handles \cup {NULL})
       \/ PostMessageStatus(p)
       \/ PostMessageSteps(p)
       \/ CheckVideoStatusStart(p, {1})
       \/ CheckVideoStatusPoll(p)
       \/ CheckVideoStatusUpdate(p)
       \/ CheckVideoStatusCommit(p)
       \/ UpdateVideoUrlStart(p, {1}, {1})
       \/ UpdateVideoUrlUpdate(p)
       \/ UpdateVideoUrlCommit(p)

SpecVideo == Init /\ [][NextVideo]_vars

PostCommentSteps(p) ==
  \/ PostCommentInsert(p)
  \/ PostCommentCommit(p)
  \/ PostCommentSelect(p)
  \/ PostCommentEmit(p)

AddReactionSteps(p) ==
  \/ AddReactionUpsert(p)
  \/ AddReactionCommit(p)
  \/ AddReactionSelect(p)
  \/ AddReactionEmit(p)

\* The board: messages are posted (one of the tags fields names a tag twice),
\* commented on and reacted to, by message id, whether or not a message of
\* that id is stored.
NextBoard ==
  \E p \in Procs :
    \/ PostMessageStart(p, MaxVideoMessages, {1}, {"hello"},
                        {<<"a">>, <<"A", ",", " ", "a", " ">>}, {NULL}, {NULL})
    \/ PostMessageSteps(p)
    \/ PostCommentStart(p, {1}, {1, MaxVideoMessages + 1}, {"hi"})
    \/ PostCommentSteps(p)
    \/ AddReactionStart(p, {1}, {1}, {"up"})
    \/ AddReactionSteps(p)

SpecBoard == Init /\ [][NextBoard]_vars

CheckVideoStatusSteps(p) ==
  \/ CheckVideoStatusPoll(p)
  \/ CheckVideoStatusUpdate(p)
  \/ CheckVideoStatusCommit(p)

\* Sessions: each of the seven endpoints behind login_required is requested
\* without a logged-in user, while a logged-in user submits a video job and
\* posts a message with its handle.
NextAuth ==
  \/ \E h \in Handles : JobAdvance(h)
  \/ \E p \in Procs :
       \/ PostMessageStart(p, MaxVideoMessages, {0, 1}, {"hello"}, {<<>>},
                           {NULL}, Handles)
       \/ PostMessageStatus(p)
       \/ PostMessageSteps(p)
       \/ GenerateVideo(p, {0, 1})
       \/ PostCommentStart(p, {0}, {1}, {"hi"})
       \/ AddReactionStart(p, {0}, {1}, {"up"})
       \/ UpdateVideoUrlStart(p, {0}, {1})
       \/ GenerateImage(p, {0})
       \/ CheckVideoStatusStart(p, {0})

SpecAuth == Init /\ [][NextAuth]_vars

\* The gateway: each provider key is set or not; images and video jobs are
\* requested, jobs advance at the provider and are polled, and a message is
\* posted with a job's handle, with no tag or with one tag named twice.
InitGateway ==
  /\ db = EmptyDb
  /\ wdb = EmptyDb
  /\ writer = 0
  /\ procs = [p \in Procs |-> IdleProc]
  /\ jobs = [h \in Handles |-> NoJob]
  /\ lastEvent = NoEvent
  /\ display = <<>>
  /\ apiKeys \in [stability : BOOLEAN, luma : BOOLEAN]
  /\ polls = NoPolls
  /\ channels = NoChannels
  /\ clock = 0

NextGateway ==
  \/ \E h \in Handles : JobAdvance(h)
  \/ \E p \in Procs :
       \/ GenerateImage(p, {1})
       \/ GenerateVideo(p, {1})
       \/ PostMessageStart(p, MaxVideoMessages, {1}, {"hello"},
                           {<<>>, <<"a", ",", "a">>}, {NULL}, Handles)
       \/ PostMessageStatus(p)
       \/ PostMessageSteps(p)
       \/ CheckVideoStatusStart(p, {1})
       \/ CheckVideoStatusSteps(p)

SpecGateway == InitGateway /\ [][NextGateway]_vars

\* Polling: a video job is submitted and advances at the provider, a message
\* is posted with its handle, and the poll loops of the submitter's page and
\* of a viewer's page run.  The server finishes every request it has begun
\* and a loop whose poll is due sends it.
NextPoll ==
  \/ \E h \in Handles : JobAdvance(h)
  \/ \E p \in Procs :
       \/ GenerateVideo(p, {1})
       \/ PostMessageStart(p, MaxVideoMessages, {1}, {"hello"}, {<<>>},
                           {NULL}, Handles)
       \/ PostMessageStatus(p)
       \/ PostMessageSteps(p)
       \/ ClientPoll(p, {1})
       \/ CheckVideoStatusSteps(p)

FairPoll ==
  /\ \A p \in Procs :
       WF_vars(PostMessageStatus(p) \/ PostMessageSteps(p)
               \/ CheckVideoStatusSteps(p))
  /\ SF_vars(\E p \in Procs : ClientPoll(p, {1}))

SpecPoll == Init /\ [][NextPoll]_vars /\ FairPoll

FeedSteps(p) ==
  \/ FeedComments(p)
  \/ FeedTags(p)
  \/ FeedReactions(p)
  \/ IndexPopular(p)
  \/ ViewTagRender(p)

\* The store after n messages with no media were posted one after the other,
\* message k in second ts[k] under the one tag names[k].
RECURSIVE PostedBoard(_, _, _)
PostedBoard(n, ts, names) ==
  IF n = 0 THEN EmptyDb
  ELSE LET d0 == PostedBoard(n - 1, ts, names)
           d1 == InsertMessageAt(d0, ts[n], 1, "hello", NULL, NULL, NULL)
           d2 == InsertOrIgnoreTag(d1, names[n])
       IN  InsertLink(d2, n, SelectTagId(d2, names[n]))

\* Reading.  It is second 0 and the board holds two messages: the first was
\* posted in the second before under the tag a, the second either in that
\* same second under b or in second 0 under a, and was reacted to once.
\* Message 1 is commented on while the seconds pass, and the feed and the
\* page of tag a are loaded.
InitFeed ==
  /\ clock = 0
  /\ \E ts \in [1..2 -> {-1, 0}], names \in [1..2 -> {<<"a">>, <<"b">>}] :
       /\ ts[1] = -1
       /\ names[1] = <<"a">>
       /\ names[2] = <<"a">> <=> ts[2] = 0
       /\ db = UpsertReaction(PostedBoard(2, ts, names), 2, 1, "up")
  /\ wdb = db
  /\ writer = 0
  /\ procs = [p \in Procs |-> IdleProc]
  /\ jobs = [h \in Handles |-> NoJob]
  /\ lastEvent = NoEvent
  /\ display = <<>>
  /\ apiKeys = KeysSet
  /\ polls = NoPolls
  /\ channels = NoChannels

NextFeed ==
  \/ Tick
  \/ \E p \in Procs :
       \/ PostCommentStart(p, {1}, {1}, {"hi"})
       \/ PostCommentSteps(p)
       \/ IndexStart(p)
       \/ ViewTagStart(p, {<<"a">>})
       \/ FeedSteps(p)
       \/ CloseConnection(p)

SpecFeed == InitFeed /\ [][NextFeed]_vars

\* Channels: clients connect and disconnect while messages are posted.
NextChannels ==
  \/ \E c \in Clients : Connect(c) \/ Disconnect(c)
  \/ \E p \in Procs :
       \/ PostMessageStart(p, MaxMessages, {1}, {"hello"}, {<<>>}, {NULL},
                           {NULL})
       \/ PostMessageSteps(p)

SpecChannels == Init /\ [][NextChannels]_vars

\* The stored rows.  The board holds one message, posted a second ago with
\* the handle of a job that has completed since; it is commented on, its URL
\* is patched by both endpoints, and a client connects and disconnects.
InitStore ==
  /\ clock = 1
  /\ db = InsertMessageAt(EmptyDb, 0, 1, "hello", NULL, "h1", NULL)
  /\ wdb = db
  /\ writer = 0
  /\ procs = [p \in Procs |-> IdleProc]
  /\ jobs = [h \in Handles |-> [state |-> "completed", url |-> "v1"]]
  /\ lastEvent = [NoEvent EXCEPT !.type = "new_message", !.message_id = 1,
                    !.content = "hello", !.video_id = "h1",
                    !.tags = Split(<<>>), !.user = 1]
  /\ display = ClientNewMessage(<<>>, 1)
  /\ apiKeys = KeysSet
  /\ polls = NoPolls
  /\ channels = NoChannels

NextStore ==
  \/ Connect("c1") \/ Disconnect("c1")
  \/ \E p \in Procs :
       \/ PostCommentStart(p, {1}, {1}, {"hi"})
       \/ PostCommentSteps(p)
       \/ CheckVideoStatusStart(p, {1})
       \/ CheckVideoStatusSteps(p)
       \/ UpdateVideoUrlStart(p, {1}, {1})
       \/ UpdateVideoUrlUpdate(p)
       \/ UpdateVideoUrlCommit(p)
       \/ CloseConnection(p)

SpecStore == InitStore /\ [][NextStore]_vars

\* Events: messages are posted, with no tag or with one tag named twice,
\* comments with and without content are submitted, and reactions are added,
\* some of them while another request keeps the database locked.
NextEvents ==
  \E p \in Procs :
    \/ PostMessageStart(p, MaxVideoMessages, {1}, {"hello"},
                        {<<>>, <<"a", ",", "a">>}, {NULL}, {NULL})
    \/ PostMessageSteps(p)
    \/ PostCommentStart(p, {1}, {1}, {"hi", ""})
    \/ PostCommentSteps(p)
    \/ AddReactionStart(p, {1}, {1}, {"up"})
    \/ AddReactionSteps(p)
    \/ AddReactionError(p)

SpecEvents == Init /\ [][NextEvents]_vars

\* ------------------------------------------------------------------ claims
\* The normalized, non-empty tag names of a tags field.
TagNames(form) ==
  {NormalizeTag(Split(form)[k]) : k \in 1..Len(Split(form))} \ {<<>>}

\* Two tokens of the field normalize to the same name.
HasRepeatedTag(form) ==
  \E j, k \in 1..Len(Split(form)) :
    /\ j # k
    /\ NormalizeTag(Split(form)[j]) = NormalizeTag(Split(form)[k])
    /\ NormalizeTag(Split(form)[j]) # <<>>

\* post_message request p has committed its message.
Posted(p) ==
  /\ procs[p].op = "post_message"
  /\ \/ procs[p].pc \in {"pm_select", "pm_emit"}
     \/ procs[p].pc = "returned" /\ procs[p].emitted = 1

\* The rows of the tags table named n.
TagRows(d, n) == {t \in d.tags : t.name = n}

\* Message mid is linked exactly once to the one row named n.
LinkedOnce(d, mid, n) ==
  /\ Cardinality(TagRows(d, n)) = 1
  /\ \A t \in TagRows(d, n) : CopiesIn(<<mid, t.id>>, d.message_tags) = 1

\* C1: whatever post_message requests have run, no tag name is in two rows of
\* the tags table (committed, or as the writing request sees it), every
\* name stored is trimmed, lowercased and non-empty, every link joins a stored
\* message to a stored tag row, every tag row is used by a message, and each
\* posted message is linked once to the single row of each of its normalized
\* tag names, so that messages with a name in common share its row.
C1_OneTagRowPerName ==
  /\ \A d \in {db, wdb} :
       /\ \A t1, t2 \in d.tags : t1.name = t2.name => t1 = t2
       /\ \A t \in d.tags : t.name # <<>> /\ NormalizeTag(t.name) = t.name
       /\ \A l \in BagToSet(d.message_tags) :
            /\ \E m \in d.messages : m.id = l[1]
            /\ Cardinality({t \in d.tags : t.id = l[2]}) = 1
  /\ \A t \in db.tags : \E l \in BagToSet(db.message_tags) : l[2] = t.id
  /\ \A p \in Procs :
       Posted(p) =>
         /\ \A n \in TagNames(procs[p].tags) :
              LinkedOnce(db, procs[p].message_id, n)
         /\ \A l \in BagToSet(db.message_tags) :
              l[1] = procs[p].message_id =>
                \E t \in db.tags :
                  t.id = l[2] /\ t.name \in TagNames(procs[p].tags)

\* Two posted messages whose tags fields differ and overlap in a name, with
\* one row per name in the table.
C1_Witness ==
  \E p, q \in Procs :
    /\ p # q /\ Posted(p) /\ Posted(q)
    /\ procs[p].pc = "returned" /\ procs[q].pc = "returned"
    /\ procs[p].tags = <<"a">>
    /\ procs[q].tags = <<"A", ",", "b">>
    /\ {t.name : t \in db.tags} = {<<"a">>, <<"b">>}
    /\ Cardinality(db.tags) = 2

\* A finished post_message request whose tags field names no tag twice.
FinishedPlainPost(p) ==
  /\ procs[p].op = "post_message"
  /\ procs[p].pc = "returned"
  /\ HasSomethingToPost(procs[p].content, procs[p].image_data,
                        procs[p].video_id)
  /\ ~HasRepeatedTag(procs[p].tags)

\* C2: post_message requests in flight together never make a second row for
\* a tag name: uncommitted rows exist only while a request holds the write
\* lock, a request that names no tag twice always ends with the redirect and
\* its message posted, and when two requests in flight together have both
\* committed and name the same tag, the table holds one row of that name and
\* each of the two messages is linked once to it.
C2_ConcurrentGetOrCreate ==
  /\ writer = 0 => wdb = db
  /\ \A p \in Procs :
       FinishedPlainPost(p) => procs[p].resp = "302" /\ Posted(p)
  /\ \A p, q \in Procs :
       (p # q /\ Posted(p) /\ Posted(q)) =>
         /\ procs[p].message_id # procs[q].message_id
         /\ \A n \in TagNames(procs[p].tags) \cap TagNames(procs[q].tags) :
              /\ LinkedOnce(db, procs[p].message_id, n)
              /\ LinkedOnce(db, procs[q].message_id, n)
  /\ \A p, q \in Procs :
       (p # q /\ writer = p /\ procs[q].op = "post_message") =>
         \A n \in TagNames(procs[p].tags) \cap TagNames(procs[q].tags) :
           Cardinality(TagRows(wdb, n)) <= 1

\* Request q ran its whole transaction and finished with the redirect while
\* request p, which committed first, has yet to broadcast; they share the tag
\* "b", which the two spell differently.
C2_Witness ==
  \E p, q \in Procs :
    /\ p # q /\ Posted(p) /\ procs[p].pc = "pm_emit"
    /\ FinishedPlainPost(q) /\ procs[q].resp = "302"
    /\ procs[q].message_id > procs[p].message_id
    /\ procs[p].tags = <<"A", ",", "b">>
    /\ procs[q].tags = <<" ", "b", ",", ",">>
    /\ LinkedOnce(db, procs[p].message_id, <<"b">>)
    /\ LinkedOnce(db, procs[q].message_id, <<"b">>)

\* The race C2 is about: q has read its form and waits for the write lock
\* while p, the writer, has made the row of a tag both name and not yet
\* committed it.
C2_Racing ==
  \E p, q \in Procs :
    /\ p # q /\ writer = p
    /\ procs[p].op = "post_message" /\ procs[q].pc = "pm_insert"
    /\ \E n \in TagNames(procs[p].tags) \cap TagNames(procs[q].tags) :
         TagRows(wdb, n) # {} /\ TagRows(db, n) = {}

\* C3: a post_message request whose tags field names one tag several times
\* ends with the redirect, its message stored and linked once to that tag.
C3_RepeatedTagIgnored ==
  \A p \in Procs :
    ( /\ procs[p].op = "post_message"
      /\ procs[p].pc = "returned"
      /\ HasSomethingToPost(procs[p].content, procs[p].image_data,
                            procs[p].video_id)
      /\ HasRepeatedTag(procs[p].tags) ) =>
        /\ procs[p].resp = "302"
        /\ \E m \in db.messages : m.id = procs[p].message_id
        /\ \A n \in TagNames(procs[p].tags) :
             LinkedOnce(db, procs[p].message_id, n)

\* The users with a row for reaction r on message mid.
Reactors(d, mid, r) == {u \in Users : BagIn(<<mid, u, r>>, d.reactions)}

\* C4: the reactions table never holds a (message, user, reaction) triple
\* twice, in the committed store or in the writer's view; an add_reaction
\* that repeats a stored triple leaves the table as it was; and the grouped
\* count of every reaction on every message is the number of distinct users
\* with that reaction on that message.
C4_OneRowPerTriple ==
  /\ \A d \in {db, wdb} :
       /\ \A t \in BagToSet(d.reactions) : CopiesIn(t, d.reactions) = 1
       /\ \A t \in BagToSet(d.reactions), r \in Reactions :
            LET counts == ReactionCounts(d, t[1])
            IN  /\ r \in DOMAIN counts <=> Reactors(d, t[1], r) # {}
                /\ r \in DOMAIN counts =>
                     counts[r] = Cardinality(Reactors(d, t[1], r))
  /\ \A p \in Procs :
       ( /\ procs[p].pc = "ar_commit"
         /\ BagIn(<<procs[p].message_id, procs[p].user, procs[p].reaction>>,
                  db.reactions) ) => wdb = db

\* A request has just repeated a triple the store already held, on a message
\* where two users hold the same reaction.
C4_Witness ==
  \E p \in Procs :
    /\ procs[p].pc = "ar_commit"
    /\ writer = p
    /\ BagIn(<<procs[p].message_id, procs[p].user, procs[p].reaction>>,
             db.reactions)
    /\ Cardinality(Reactors(db, procs[p].message_id, procs[p].reaction)) = 2

\* C5: the reaction mapping of every reaction_update is the store's grouped
\* counts for that message at the moment add_reaction broadcasts it.
C5_BroadcastIsCurrentCounts ==
  [][\A p \in Procs :
       (procs[p].pc = "ar_emit" /\ procs'[p].pc = "returned") =>
         /\ lastEvent'.type = "reaction_update"
         /\ lastEvent'.reactions =
              ReactionCounts(db', lastEvent'.message_id)]_vars

\* No add_reaction request is between its start and its answer.
ReactionsQuiet == \A p \in Procs : procs[p].op # "add_reaction"
                                   \/ procs[p].pc = "returned"

\* C6: once every add_reaction request has completed, the page of a client
\* that applied each reaction_update in broadcast order shows, for each
\* message it displays, the store's grouped counts.
C6_ClientShowsFinalCounts ==
  ReactionsQuiet =>
    \A m \in DOMAIN display : display[m] = ReactionCounts(db, m)

\* post_message request p came with nothing to post.
EmptyPost(p) ==
  /\ procs[p].op = "post_message"
  /\ ~Truthy(procs[p].content)
  /\ ~Truthy(procs[p].image_data)
  /\ ~Truthy(procs[p].video_id)

WithHandle(d, h) == {m \in d.messages : m.video_id = h}

\* C8: check_video_status(h) writes only when the provider reports h
\* completed with a URL: a poll answered with any other state leaves the
\* store as it was.  The poll that finds h completed with URL u goes on to
\* the UPDATE, and when it commits every stored message carrying h has
\* video_url u, the messages not carrying h are as before, and if the
\* messages carrying h already had video_url u the store is unchanged.
C8_PollPatchesIdempotently ==
  /\ [](\A p \in Procs :
          procs[p].pc \in {"cv_update", "cv_commit"} =>
            /\ procs[p].status = "completed"
            /\ jobs[procs[p].video_id].state = "completed"
            /\ procs[p].video_url = jobs[procs[p].video_id].url
            /\ procs[p].video_url \in Urls)
  /\ [][\A p \in Procs :
          /\ (procs[p].pc = "cv_status" /\ procs'[p].pc = "returned") =>
               /\ UNCHANGED <<db, wdb, writer>>
               /\ writer # p
               /\ (procs'[p].resp = "200" =>
                     ~ShouldPatch(procs'[p].status, procs'[p].video_url))
          /\ (procs[p].pc = "cv_commit" /\ procs'[p].pc = "returned") =>
               /\ \A m \in WithHandle(db', procs[p].video_id) :
                    m.video_url = procs[p].video_url
               /\ {m.id : m \in db'.messages} = {m.id : m \in db.messages}
               /\ db'.messages \ WithHandle(db', procs[p].video_id)
                    = db.messages \ WithHandle(db, procs[p].video_id)
               /\ (\A m \in WithHandle(db, procs[p].video_id) :
                     m.video_url = procs[p].video_url) => db' = db]_vars

\* A repeated completed poll: request q polled the handle, found it
\* completed and has answered; request p, polling the same handle after it,
\* has run its UPDATE on the message that carries the handle and already has
\* the provider's URL.
C8_Witness ==
  \E p, q \in Procs :
    /\ p # q
    /\ procs[q].op = "check_video_status" /\ procs[q].pc = "returned"
    /\ procs[q].status = "completed" /\ procs[q].resp = "200"
    /\ procs[p].pc = "cv_commit" /\ writer = p
    /\ procs[p].video_id = procs[q].video_id
    /\ \E m \in db.messages :
         /\ m.video_id = procs[p].video_id
         /\ m.video_url = procs[p].video_url
    /\ wdb = db

\* C9: a stored video_url is non-null only when the provider has reported the
\* message's handle completed, and is then the URL the provider gave.
C9_UrlOnlyFromCompletedJob ==
  \A m \in db.messages :
    m.video_url # NULL =>
      /\ m.video_id \in Handles
      /\ jobs[m.video_id].state = "completed"
      /\ m.video_url = jobs[m.video_id].url

\* C10: the video_url of a stored message changes only from null, and only
\* to the URL of its handle's job once the provider reports it completed;
\* once non-null no step changes it.
C10_UrlWrittenOnce ==
  [][\A m \in db.messages, n \in db'.messages :
       (n.id = m.id /\ n.video_url # m.video_url) =>
         /\ m.video_url = NULL
         /\ m.video_id \in Handles
         /\ jobs[m.video_id].state = "completed"
         /\ n.video_url = jobs[m.video_id].url]_vars

\* The committed row a broadcast of request p is about.
CommittedRowOf(p) ==
  CASE procs[p].op = "post_message" ->
         \E m \in db.messages : m.id = procs[p].message_id
    [] procs[p].op = "post_comment" ->
         \E c \in db.comments :
           /\ c.id = procs[p].comment_id
           /\ c.message_id = procs[p].message_id
           /\ c.content = procs[p].content
    [] procs[p].op = "add_reaction" ->
         BagIn(<<procs[p].message_id, procs[p].user, procs[p].reaction>>,
               db.reactions)
    [] OTHER -> FALSE

\* C11: every broadcast comes after the commit of the mutation that caused
\* it.  The request that broadcasts holds no open transaction and the row it
\* broadcasts is in the committed store; the row of the latest event stays in
\* the committed store; committed rows never leave it; and a request whose
\* transaction was rolled back has broadcast nothing.
C11_BroadcastAfterCommit ==
  /\ [](/\ lastEvent.type = "new_message" =>
             \E m \in db.messages : m.id = lastEvent.message_id
        /\ lastEvent.type = "new_comment" =>
             \E c \in db.comments : /\ c.message_id = lastEvent.message_id
                                    /\ c.content = lastEvent.content
        /\ lastEvent.type = "reaction_update" =>
             \A r \in DOMAIN lastEvent.reactions :
               \E u \in Users :
                 BagIn(<<lastEvent.message_id, u, r>>, db.reactions)
        /\ \A p \in Procs :
             (procs[p].pc = "returned" /\ procs[p].resp = "500") =>
               procs[p].emitted = 0)
  /\ [][/\ db.messages \subseteq db'.messages
        /\ db.comments \subseteq db'.comments
        /\ \A t \in BagToSet(db.reactions) : BagIn(t, db'.reactions)
        /\ lastEvent' # lastEvent =>
             \E p \in Procs : procs'[p].emitted > procs[p].emitted
        /\ \A p \in Procs :
             procs'[p].emitted > procs[p].emitted =>
               /\ procs[p].pc \in {"pm_emit", "pc_emit", "ar_emit"}
               /\ writer # p
               /\ CommittedRowOf(p)
               /\ lastEvent'.message_id = procs[p].message_id]_vars

\* A reaction has just been broadcast, a comment is stored, and a
\* post_message request that failed and was rolled back sits answered.
C11_Witness ==
  /\ lastEvent.type = "reaction_update"
  /\ DOMAIN lastEvent.reactions # {}
  /\ db.comments # {}
  /\ \E p, q \in Procs :
       /\ procs[p].op = "post_message" /\ procs[p].resp = "500"
       /\ procs[q].op = "add_reaction" /\ procs[q].emitted = 1

\* C12: every stored comment is on a stored message.
C12_CommentTargetExists ==
  \A c \in db.comments : \E m \in db.messages : m.id = c.message_id

\* Request p has inserted its message row: it is in its transaction, has
\* failed in it, or has committed it.
HasInserted(p) == procs[p].op = "post_message" /\ procs[p].message_id # 0

\* The store d holds the message of request p with a link to the one row of
\* each tag name of its tags field.
CompleteIn(d, p) ==
  /\ \E m \in d.messages : m.id = procs[p].message_id
  /\ \A n \in TagNames(procs[p].tags) : LinkedOnce(d, procs[p].message_id, n)

\* C13: post_message is all-or-nothing to every reader.  What other requests
\* read is the committed store.  The message row of a request is in it only
\* once the request has committed, and then with all its tag rows and links;
\* while the request is in its transaction, and after it failed in it, the
\* committed store has no row of that message id and no link to it.  The
\* committed store changes only by a commit, which installs the writer's
\* whole transaction; a failing statement and the teardown that follows
\* leave the committed store as it was and drop what the request wrote.
C13_AllOrNothing ==
  /\ [](\A p \in Procs :
          /\ \A q \in Procs : q # p => (writer = p => View(q) = db)
          /\ HasInserted(p) =>
               IF Posted(p) THEN CompleteIn(db, p)
               ELSE /\ writer = p
                    /\ \A m \in db.messages : m.id # procs[p].message_id
                    /\ \A l \in BagToSet(db.message_tags) :
                         l[1] # procs[p].message_id)
  /\ [][/\ db' # db =>
             \E p \in Procs :
               /\ procs[p].pc = "pm_tags" /\ procs'[p].pc = "pm_select"
               /\ writer = p /\ writer' = 0
               /\ db' = wdb
               /\ CompleteIn(db', p)
        /\ \A p \in Procs :
             (HasInserted(p) /\ ~Posted(p) /\ procs'[p].pc = "idle") =>
               /\ procs[p].resp = "500"
               /\ db' = db /\ wdb' = db /\ writer' = 0]_vars

\* A post_message request failed on its second tag token after writing its
\* message row and a link: the writer's view holds them, the committed store
\* holds the message of an earlier request and neither of them.
C13_Witness ==
  \E p \in Procs :
    /\ HasInserted(p) /\ procs[p].pc = "returned" /\ procs[p].resp = "500"
    /\ writer = p
    /\ \E m \in wdb.messages : m.id = procs[p].message_id
    /\ \E l \in BagToSet(wdb.message_tags) : l[1] = procs[p].message_id
    /\ db.messages # {}
    /\ \A m \in db.messages : m.id # procs[p].message_id

\* The endpoints behind login_required that C14 names.
GuardedOps ==
  {"post_message", "post_comment", "add_reaction", "update_video_url",
   "generate_image", "generate_video", "check_video_status"}

\* Request p came without a logged-in user.
Anonymous(p) == procs[p].op \in GuardedOps /\ procs[p].user = 0

\* C14: a request without a logged-in user to any of the seven endpoints is
\* answered with the redirect to the login page and nothing else: it never
\* holds the write lock, broadcasts nothing, calls no gateway function and
\* sends nothing to a provider, and neither its arrival nor its teardown
\* changes the store, the provider's jobs, the last broadcast or a page.
C14_AnonymousChangesNothing ==
  /\ [](\A p \in Procs :
          Anonymous(p) =>
            /\ procs[p].pc = "returned"
            /\ procs[p].resp = "302 login"
            /\ writer # p
            /\ procs[p].emitted = 0
            /\ procs[p].error = NULL
            /\ ~procs[p].sent
            /\ procs[p].comment_id = 0)
  /\ [][\A p \in Procs :
          ((Anonymous(p) \/ Anonymous(p)') /\ procs'[p] # procs[p]) =>
            UNCHANGED <<db, wdb, writer, jobs, lastEvent, display, polls>>]_vars

\* An anonymous post_message carrying a video handle has been turned away
\* while a logged-in user's post_message is in its transaction and the
\* provider has the job of the handle.
C14_Witness ==
  \E p, q \in Procs :
    /\ Anonymous(p) /\ procs[p].op = "post_message"
    /\ procs[p].video_id \in Handles
    /\ jobs[procs[p].video_id].state # "none"
    /\ procs[q].user = 1 /\ procs[q].pc = "pm_tags" /\ writer = q

\* C15: no step of a check_video_status request, from its arrival to its
\* teardown, broadcasts: the last event and the page built from events are
\* as before, whatever the provider reported, the patching poll included.
C15_PollNeverBroadcasts ==
  /\ [](\A p \in Procs :
          procs[p].op = "check_video_status" => procs[p].emitted = 0)
  /\ [][\A p \in Procs :
          ( /\ procs[p].op = "check_video_status"
               \/ procs'[p].op = "check_video_status"
            /\ procs'[p] # procs[p] ) =>
            UNCHANGED <<lastEvent, display>>]_vars

\* A poll found the job completed, patched the stored message and answered;
\* the last broadcast is still the new_message that announced the message
\* without a URL.
C15_Witness ==
  \E p \in Procs :
    /\ procs[p].op = "check_video_status" /\ procs[p].pc = "returned"
    /\ procs[p].status = "completed" /\ procs[p].resp = "200"
    /\ lastEvent.type = "new_message"
    /\ lastEvent.video_id = procs[p].video_id
    /\ lastEvent.video_url = NULL
    /\ \E m \in db.messages :
         /\ m.id = lastEvent.message_id
         /\ m.video_url = procs[p].video_url
         /\ m.video_url \in Urls

\* Request p is a generate_image or generate_video request.
Generating(p) == procs[p].op \in {"generate_image", "generate_video"}

\* C16: generate_image and generate_video answer their requester and do
\* nothing else.  The request never holds the write lock and emits nothing;
\* its answer is 200 with the image payload or the job handle and no error,
\* or 500 with the error and no payload; and neither its handling nor its
\* teardown changes the store, the last broadcast or a page.
C16_GenerateAnswersRequesterOnly ==
  /\ [](\A p \in Procs :
          Generating(p) =>
            /\ procs[p].pc = "returned"
            /\ procs[p].emitted = 0
            /\ writer # p
            /\ procs[p].resp \in {"200", "500"}
            /\ procs[p].resp = "200" =>
                 /\ procs[p].error = NULL
                 /\ IF procs[p].op = "generate_image"
                    THEN procs[p].image_data = "img"
                    ELSE procs[p].video_id \in Handles
            /\ procs[p].resp = "500" =>
                 /\ Truthy(procs[p].error)
                 /\ procs[p].image_data = NULL
                 /\ procs[p].video_id = NULL)
  /\ [][\A p \in Procs :
          ((Generating(p) \/ Generating(p)') /\ procs'[p] # procs[p]) =>
            UNCHANGED <<db, wdb, writer, lastEvent, display>>]_vars

\* An image has been generated and returned while another request is in the
\* transaction of a message that carries a submitted job's handle.
C16_Witness ==
  \E p, q \in Procs :
    /\ procs[p].op = "generate_image" /\ procs[p].resp = "200"
    /\ procs[q].op = "post_message" /\ procs[q].pc = "pm_tags" /\ writer = q
    /\ procs[q].video_id \in Handles
    /\ jobs[procs[q].video_id].state # "none"

\* C17: a request whose gateway call failed is answered with the error
\* (status 500 and the error text) and broadcasts nothing.
C17_GatewayErrorIsReturned ==
  \A p \in Procs :
    (procs[p].pc = "returned" /\ Truthy(procs[p].error)) =>
      /\ procs[p].resp = "500"
      /\ procs[p].emitted = 0

\* C17 without post_message: generate_image, generate_video and
\* check_video_status answer a failed gateway call with the error.
C17_OtherHandlersReturnError ==
  \A p \in Procs :
    ( /\ procs[p].pc = "returned" /\ Truthy(procs[p].error)
      /\ procs[p].op # "post_message" ) =>
      /\ procs[p].resp = "500"
      /\ procs[p].emitted = 0

\* Request p was answered with a gateway error; when nothing was sent to the
\* provider the cause is the missing key, otherwise the request to the
\* provider failed.
GatewayFailed(p) ==
  /\ procs[p].op \in {"generate_image", "generate_video", "check_video_status"}
  /\ procs[p].pc = "returned"
  /\ Truthy(procs[p].error)

\* C18: a missing provider key and a failed request to the provider are
\* answered as different kinds of error: the status of the answer to a
\* request that failed for the missing key differs from the status of the
\* answer to a request whose call to the provider failed.
C18_ConfigErrorIsDistinctKind ==
  \A p, q \in Procs :
    (GatewayFailed(p) /\ GatewayFailed(q) /\ ~procs[p].sent /\ procs[q].sent)
      => procs[p].resp # procs[q].resp

\* The part of C18 that holds: a request is sent to a provider only when
\* that provider's key is set, and the error for a missing key is the fixed
\* text, which no answer to a sent request carries.
C18_NoKeyNothingSent ==
  \A p \in Procs :
    /\ (procs[p].sent /\ procs[p].op = "generate_image") => apiKeys.stability
    /\ (procs[p].sent /\ procs[p].op # "generate_image") => apiKeys.luma
    /\ procs[p].error = KeyNotSet <=> (Truthy(procs[p].error) /\ ~procs[p].sent)

\* C19: a poll loop ends only on a poll that finds the job completed or
\* failed: when a loop takes an answer and schedules no further poll, the
\* job of its handle is in a terminal state.
C19_LoopStopsOnlyOnTerminal ==
  [][\A h \in Handles, l \in Loops :
       (polls[h][l] = "inflight" /\ polls'[h][l] \in {"stopped", "done"}) =>
         jobs[h].state \in {"completed", "failed"}]_vars

\* C19 for the polls the provider answered: when a loop takes a status
\* answer (not an error) and schedules no further poll, the job of its
\* handle is in a terminal state.
C19_AnsweredLoopStopsOnlyOnTerminal ==
  [][\A h \in Handles, l \in Loops, p \in Procs :
       ( /\ polls[h][l] = "inflight" /\ polls'[h][l] \in {"stopped", "done"}
         /\ procs[p].loop = l /\ procs[p].video_id = h
         /\ procs'[p].pc = "returned" /\ procs'[p].resp = "200" ) =>
         jobs[h].state \in {"completed", "failed"}]_vars

\* A stored message carries handle h while the job of h is not yet finished:
\* the message was posted before the job completed.
PostedBeforeCompletion(h) ==
  /\ jobs[h].state \in {"queued", "dreaming"}
  /\ \E m \in db.messages : m.video_id = h

\* Every stored message with handle h has the URL of h's job.
Patched(h) == \A m \in db.messages : m.video_id = h => m.video_url = jobs[h].url

\* C20: for a message posted with a handle before its job completed,
\* whenever the job is then completed, eventually every stored message with
\* that handle has the job's URL.
C20_UrlEventuallyPatched ==
  \A h \in Handles :
    [](PostedBeforeCompletion(h) =>
         [](jobs[h].state = "completed" => <>Patched(h)))

\* A finished load of the feed in slot p.
Loaded(p) ==
  procs[p].op = "index" /\ procs[p].pc = "returned" /\ procs[p].resp = "200"

\* The rows of a ranking, whatever their order.
Ranked(r) == {r[k] : k \in DOMAIN r}

\* C21: the popular-tags ranking is deterministic.  Two evaluations of the
\* top-N query that rank the same tags with the same counts (the store's
\* tags and links never change in SpecFeed) return the same sequence, so tags
\* of equal count come in one fixed order.
C21_RankingIsDeterministic ==
  \A p, q \in Procs :
    ( /\ Loaded(p) /\ Loaded(q)
      /\ Ranked(procs[p].popular_tags) = Ranked(procs[q].popular_tags) ) =>
      procs[p].popular_tags = procs[q].popular_tags

\* The part of C21 that holds: every ranking lists each tag that has a link
\* once, with its count, in descending order of count.
C21_RankingIsDescending ==
  \A p \in Procs :
    Loaded(p) =>
      /\ Ranked(procs[p].popular_tags) =
           {<<t.name, t.tag_count>> : t \in TagCounts(db)}
      /\ Len(procs[p].popular_tags) = Cardinality(TagCounts(db))
      /\ \A k \in 1..(Len(procs[p].popular_tags) - 1) :
           procs[p].popular_tags[k][2] >= procs[p].popular_tags[k + 1][2]

\* Some request broadcasts an event in this step.
Broadcasting == \E p \in Procs : procs'[p].emitted > procs[p].emitted

\* C22: a broadcast goes only to the channels connected at that moment, once
\* to each.  A channel's list of received events changes only in a step that
\* broadcasts while the channel is connected, and then by exactly one copy of
\* that event; a step that broadcasts gives every connected channel its copy;
\* connecting delivers nothing, so an event broadcast earlier is never
\* received later.
C22_DeliveredOnceToConnected ==
  [][\A c \in Clients :
       /\ channels'[c].received # channels[c].received =>
            /\ Broadcasting
            /\ channels[c].connected
            /\ channels'[c].received =
                 Append(channels[c].received, lastEvent')
       /\ (Broadcasting /\ channels[c].connected) =>
            channels'[c].received # channels[c].received
       /\ (~channels[c].connected /\ channels'[c].connected) =>
            channels'[c].received = channels[c].received]_vars

\* One client got the new_message event; another connected after it and has
\* received nothing.
C22_Witness ==
  \E c, d \in Clients :
    /\ lastEvent.type = "new_message"
    /\ channels[c].connected /\ channels[c].received = <<>>
    /\ channels[d].received = <<lastEvent>>

\* Message row m as it is in store d: the same id, author, content, image
\* data, video handle and timestamp; the video_url may differ.
MessageKept(m, d) ==
  \E n \in d.messages : [n EXCEPT !.video_url = m.video_url] = m

\* A channel connects or disconnects in this step.
ConnectionEvent ==
  \E c \in Clients : channels'[c].connected # channels[c].connected

\* C23: messages and comments are never deleted and never rewritten.  In
\* every step each stored message is still stored with every field but
\* video_url as it was, each stored comment is still stored with every field
\* as it was, and a connect or disconnect changes no stored row.
C23_RowsOnlyGrow ==
  [][/\ \A m \in db.messages : MessageKept(m, db')
     /\ db.comments \subseteq db'.comments
     /\ ConnectionEvent => db' = db /\ wdb' = wdb]_vars

\* The stored message has been patched with a URL and commented on, in a
\* later second than it was posted, and a channel is connected.
C23_Witness ==
  /\ \E m \in db.messages :
       /\ Truthy(m.video_url) /\ m.timestamp < clock
       /\ \E c \in db.comments : c.message_id = m.id
  /\ \E c \in Clients : channels[c].connected

\* The entries of a sequence, as a set.
Entries(s) == {s[k] : k \in DOMAIN s}

\* C24: the tags carried in a new_message broadcast are exactly the
\* normalized tag names linked to that message in the store: when a request
\* broadcasts new_message, the event lists each stored tag name of the
\* message once and nothing else (no empty entry, no duplicate, no name in
\* another spelling).
C24_EventTagsAreStoredTags ==
  [][\A p \in Procs :
       ( /\ procs[p].op = "post_message"
         /\ procs'[p].emitted > procs[p].emitted ) =>
         /\ Entries(lastEvent'.tags) =
              SelectTagNames(db', lastEvent'.message_id)
         /\ Len(lastEvent'.tags) = Cardinality(Entries(lastEvent'.tags))]_vars

\* C25: the empty reaction mapping of a new_message broadcast matches the
\* store: when a request broadcasts new_message, the committed reactions
\* table holds no row for the message's id.
C25_NewMessageHasNoReactions ==
  [][\A p \in Procs :
       ( /\ procs[p].op = "post_message"
         /\ procs'[p].emitted > procs[p].emitted ) =>
         /\ lastEvent'.reactions = <<>>
         /\ ReactionCounts(db', lastEvent'.message_id) = <<>>]_vars

\* The parenthesis of C25: every reaction row references a stored message.
C25_ReactionTargetExists ==
  \A x \in BagToSet(db.reactions) : \E m \in db.messages : m.id = x[1]

\* Request p moves from pc a to pc b in this step.
Moves(p, a, b) == procs[p].pc = a /\ procs'[p].pc = b

\* The status check and the insert of C26.  A post with a handle reaches its
\* INSERT only through the one status check; the check leaves the URL of the
\* provider's job when it reported the job completed and null otherwise (an
\* error or an unfinished job); and the row is inserted with that URL.
C26_CheckAndInsert(p) ==
  /\ ( /\ procs'[p].op = "post_message" /\ procs'[p].pc = "pm_insert"
       /\ procs[p].pc # "pm_insert" /\ Truthy(procs'[p].video_id) ) =>
       Moves(p, "pm_status", "pm_insert")
  /\ procs'[p].pc = "pm_status" => procs[p].pc \in {"idle", "pm_status"}
  /\ Moves(p, "pm_status", "pm_insert") =>
       LET job == jobs[procs[p].video_id]
       IN  /\ Truthy(procs'[p].video_url) =>
                /\ ~Truthy(procs'[p].error) /\ job.state = "completed"
                /\ procs'[p].video_url = job.url
           /\ (~Truthy(procs'[p].error) /\ job.state = "completed") =>
                procs'[p].video_url = job.url
  /\ Moves(p, "pm_insert", "pm_tags") =>
       \E m \in wdb'.messages :
         /\ m.id = procs'[p].message_id /\ m \notin wdb.messages
         /\ m.video_id = procs[p].video_id
         /\ m.video_url = procs[p].video_url

\* C26: post_message with a video handle makes one status check before the
\* insert, inserts the row with the provider's URL if and only if the check
\* reported completed and with null otherwise, and the new_message broadcast
\* carries that same video_url: the URL read back for the event is the one
\* that was inserted.
C26_BroadcastCarriesInsertedUrl ==
  [][\A p \in Procs :
       /\ C26_CheckAndInsert(p)
       /\ Moves(p, "pm_select", "pm_emit") =>
            procs'[p].video_url = procs[p].video_url
       /\ Moves(p, "pm_emit", "returned") =>
            lastEvent'.video_url = procs[p].video_url]_vars

\* C26 as the code has it: the check and the insert as above; the broadcast
\* carries the video_url the stored row has when it is read back after the
\* commit, which is the inserted one unless a patch of the row was committed
\* in between.
C26_BroadcastCarriesStoredUrl ==
  [][\A p \in Procs :
       /\ C26_CheckAndInsert(p)
       /\ Moves(p, "pm_select", "pm_emit") =>
            /\ \E m \in db.messages :
                 /\ m.id = procs[p].message_id
                 /\ m.video_url = procs'[p].video_url
            /\ db' = db
       /\ Moves(p, "pm_emit", "returned") =>
            lastEvent'.video_url = procs[p].video_url]_vars

\* A message was posted with a handle and broadcast with a URL that only
\* update_video_url writes: the row was patched between the post's commit
\* and its re-read.
C26_Witness ==
  \E p \in Procs :
    /\ procs[p].op = "post_message" /\ procs[p].pc = "returned"
    /\ procs[p].emitted = 1 /\ Truthy(procs[p].video_id)
    /\ lastEvent.type = "new_message"
    /\ lastEvent.message_id = procs[p].message_id
    /\ lastEvent.video_url \in ClientUrls

\* Request p broadcasts in this step.
Emits(p) == procs'[p].emitted > procs[p].emitted

\* How many broadcasts a finished request has made, by what it did:
\* post_message one if it got through its commit to the redirect (a post with
\* nothing to post, or one that failed, none); post_comment one if it had
\* content, none and no insert if it had none; add_reaction one unless it
\* failed.
C27_CountAtReturn(p) ==
  CASE procs[p].op = "post_message" ->
         procs[p].emitted =
           IF /\ procs[p].resp = "302"
              /\ HasSomethingToPost(procs[p].content, procs[p].image_data,
                                    procs[p].video_id)
           THEN 1 ELSE 0
    [] procs[p].op = "post_comment" ->
         IF Truthy(procs[p].content)
         THEN procs[p].emitted = 1
         ELSE procs[p].emitted = 0 /\ procs[p].comment_id = 0 /\ writer # p
    [] procs[p].op = "add_reaction" ->
         procs[p].emitted = IF procs[p].resp = "500" THEN 0 ELSE 1
    [] OTHER -> procs[p].emitted = 0

\* C27: each accepted mutation is followed by exactly one broadcast of its
\* own type and each rejected one by none.  A request has broadcast nothing
\* before its commit and, once it has returned, exactly one event if its
\* mutation was committed and none otherwise; a request that commits goes on
\* to its broadcast; the broadcast is made after the commit, names the
\* committed row (for new_comment: its message id, content and author), and
\* has the request's type; a comment with empty content and a reaction that
\* fails in the store change neither the store nor the last event.
C27_OneBroadcastPerMutation ==
  /\ [](\A p \in Procs :
          IF procs[p].pc = "returned" THEN C27_CountAtReturn(p)
          ELSE procs[p].emitted = 0)
  /\ [][\A p \in Procs :
          /\ Moves(p, "pm_tags", "pm_select") =>
               \E m \in db'.messages : m.id = procs[p].message_id
          /\ (Emits(p) /\ procs[p].op = "post_message") =>
               /\ procs[p].pc = "pm_emit"
               /\ lastEvent'.type = "new_message"
               /\ \E m \in db.messages :
                    /\ m.id = lastEvent'.message_id
                    /\ m.id = procs[p].message_id
                    /\ m.content = lastEvent'.content
          /\ Moves(p, "pc_commit", "pc_select") =>
               \E c \in db'.comments : c.id = procs[p].comment_id
          /\ (Emits(p) /\ procs[p].op = "post_comment") =>
               /\ procs[p].pc = "pc_emit"
               /\ lastEvent'.type = "new_comment"
               /\ \E c \in db.comments :
                    /\ c.id = procs[p].comment_id
                    /\ c.message_id = lastEvent'.message_id
                    /\ c.content = lastEvent'.content
                    /\ c.user_id = lastEvent'.user
          /\ (Emits(p) /\ procs[p].op = "add_reaction") =>
               /\ procs[p].pc = "ar_emit"
               /\ lastEvent'.type = "reaction_update"
          /\ ( /\ procs'[p].pc = "returned" /\ procs[p].pc # "returned"
               /\ ~Emits(p) ) =>
               /\ lastEvent' = lastEvent /\ db' = db
               /\ procs[p].pc \notin {"pm_select", "pm_emit", "pc_select",
                                      "pc_emit", "ar_select", "ar_emit"}]_vars

\* A reaction failed in the store and was answered 500 with no broadcast,
\* and a comment was committed and broadcast once, with its content and
\* author.
C27_Witness ==
  \E p, q \in Procs :
    /\ procs[p].op = "add_reaction" /\ procs[p].pc = "returned"
    /\ procs[p].resp = "500" /\ procs[p].emitted = 0
    /\ procs[q].op = "post_comment" /\ procs[q].pc = "returned"
    /\ procs[q].emitted = 1
    /\ lastEvent.type = "new_comment" /\ lastEvent.content = "hi"
    /\ lastEvent.user = 1

\* Sequence s lists each member of set S once and nothing else.
ListsOnce(s, S) == Entries(s) = S /\ Len(s) = Cardinality(S)

\* The timestamps along s never rise / never fall.
Descending(s) ==
  \A k \in 1..(Len(s) - 1) : s[k].timestamp >= s[k + 1].timestamp

Ascending(s) ==
  \A k \in 1..(Len(s) - 1) : s[k].timestamp <= s[k + 1].timestamp

\* The ids and timestamps of the rows of a page, in the page's order.
Listed(page) ==
  [k \in DOMAIN page |-> [id |-> page[k].id, timestamp |-> page[k].timestamp]]

\* The committed messages linked to the tag called name.
Tagged(name) ==
  {m \in db.messages :
     \E t \in db.tags : t.name = name /\ BagIn(<<m.id, t.id>>, db.message_tags)}

\* C28: the feed lists every stored message once in descending timestamp
\* order, the tag view lists exactly the messages linked to the requested
\* tag, once each, in descending timestamp order, the comments of a message
\* are listed in ascending timestamp order, and the comments, tags and
\* reaction counts shown for a message are those of the committed store at
\* the moment they are read.
C28_FeedReadsStore ==
  [][\A p \in Procs :
       /\ (Moves(p, "idle", "fd_comments") /\ procs'[p].op = "index") =>
            /\ ListsOnce(Listed(procs'[p].messages),
                 {[id |-> m.id, timestamp |-> m.timestamp] :
                    m \in db.messages})
            /\ Descending(procs'[p].messages)
       /\ (Moves(p, "idle", "fd_comments") /\ procs'[p].op = "view_tag") =>
            /\ ListsOnce(Listed(procs'[p].messages),
                 {[id |-> m.id, timestamp |-> m.timestamp] :
                    m \in Tagged(procs'[p].tag_name)})
            /\ Descending(procs'[p].messages)
       /\ Moves(p, "fd_comments", "fd_tags") =>
            LET row == procs'[p].messages[procs[p].i]
            IN  /\ ListsOnce(row.comments,
                     {c \in db.comments : c.message_id = row.id})
                /\ Ascending(row.comments)
       /\ Moves(p, "fd_tags", "fd_reactions") =>
            LET row == procs'[p].messages[procs[p].i]
            IN  row.tags =
                  {t.name : t \in {x \in db.tags :
                     BagIn(<<row.id, x.id>>, db.message_tags)}}
       /\ Moves(p, "fd_reactions", "fd_comments") =>
            LET row == procs'[p].messages[procs[p].i]
            IN  /\ DOMAIN row.reactions =
                     {x[3] : x \in {y \in BagToSet(db.reactions) :
                                      y[1] = row.id}}
                /\ \A r \in DOMAIN row.reactions :
                     row.reactions[r] =
                       Cardinality({u \in Users :
                         BagIn(<<row.id, u, r>>, db.reactions)})
       /\ Moves(p, "fd_comments", "returned") =>
            /\ Descending(procs[p].messages)
            /\ \A j, k \in DOMAIN procs[p].messages :
                 j # k => procs[p].messages[j].id # procs[p].messages[k].id]_vars

\* A loaded feed: the newer message first with its reaction count, then the
\* older one with its two comments, the earlier comment first.
C28_Witness ==
  \E p \in Procs :
    /\ procs[p].op = "index" /\ procs[p].pc = "fd_comments"
    /\ procs[p].i > Len(procs[p].messages)
    /\ Len(procs[p].messages) = 2
    /\ procs[p].messages[1].timestamp > procs[p].messages[2].timestamp
    /\ DOMAIN procs[p].messages[1].reactions = {"up"}
    /\ procs[p].messages[1].tags = {<<"a">>}
    /\ Len(procs[p].messages[2].comments) = 2
    /\ procs[p].messages[2].comments[1].timestamp
         < procs[p].messages[2].comments[2].timestamp

\* Request p makes its call to the provider in this step: the status check of
\* post_message or check_video_status, or the submission of generate_image or
\* generate_video (which call and return in one step).
CallsGateway(p) ==
  \/ procs[p].pc \in {"pm_status", "cv_status"} /\ procs'[p].pc # procs[p].pc
  \/ /\ procs[p].pc = "idle"
     /\ procs'[p].op \in {"generate_image", "generate_video"}

\* C29: no store transaction or write lock is held while a call to the
\* provider is in flight, and every request releases its transaction on all
\* paths.  A request that is about to call or is calling the provider holds
\* no write lock and has written nothing; a slot with no request holds no
\* lock; whenever no request holds the lock the uncommitted store is the
\* committed one; and when a request ends, the lock it held is released and
\* the committed store is as it was, so none of its uncommitted writes
\* persists.
C29_NoLockAcrossGatewayCall ==
  /\ [](/\ \A p \in Procs :
             /\ procs[p].pc \in {"pm_status", "cv_status"} => writer # p
             /\ procs[p].pc = "idle" => writer # p
        /\ writer = 0 => wdb = db)
  /\ [][\A p \in Procs :
          /\ CallsGateway(p) =>
               /\ writer # p /\ writer' # p
               /\ UNCHANGED <<db, wdb, writer>>
          /\ (procs[p].pc = "returned" /\ procs'[p].pc = "idle") =>
               /\ writer' # p
               /\ db' = db
               /\ (writer = p => wdb' = db)]_vars

\* A request ended by error with a transaction open: a check_video_status
\* request made its call, and in another slot a post_message request that
\* made its call and then failed after its first write has returned while
\* still holding the write lock.
C29_Witness ==
  \E p, q \in Procs :
    /\ procs[p].op = "post_message" /\ procs[p].pc = "returned"
    /\ procs[p].sent /\ writer = p /\ wdb # db
    /\ procs[q].op = "check_video_status" /\ procs[q].sent

====
